---- MODULE Spec2Model ----
(***************************************************************************)
(* Model of the SaGe SPARQL HTTP interface                                  *)
(* (src/sage/http_server/sparql_interface.py): the two request handlers     *)
(* execute_query (served on /sparql by sparql_index) and the deprecated     *)
(* sparql_query (served on /sparql/<graph_name>), the graph transaction      *)
(* calls they make, and the saved-plan store of the stateful mode.           *)
(*                                                                         *)
(* A query is identified by the length q of its solution sequence; its      *)
(* bindings are <<1, ..., q>>.  A physical plan is the query together with   *)
(* the number of bindings already emitted (the resumable state).            *)
(***************************************************************************)
EXTENDS Naturals, Sequences, FiniteSets, TLC

\* Longest solution sequence of a query.
MaxLen == 2
\* Number of requests served in one behaviour.
MaxReqs == 3
\* Number of clients; each follows one continuation lineage.
NumClients == 2

VARIABLES
    is_stateless,   \* dataset.is_stateless
    store,          \* dataset.statefull_manager: plan id -> encoded saved plan
    nextId,         \* source of uuid4(): the next id never generated before
    clients,        \* the clients and what each has received so far
    last,           \* the request served last: its locals, calls and response
    nreq,           \* number of requests served
    endpoint,       \* the route the clients of this run use
    completed,      \* ids whose resumed execution returned is_done = true
    owner,          \* plan id -> the client whose request saved under it
    inflight        \* requests served concurrently: slot -> locals and position

vars == <<is_stateless, store, nextId, clients, last, nreq, endpoint,
          completed, owner, inflight>>

Ids == 1..MaxReqs
Clients == 1..NumClients
Queries == 0..MaxLen

\* ------------------------------------------------------------------ values

\* The bindings of a single uninterrupted execution of query q.
Results(q) == [i \in 1..q |-> i]

NoPlan == [q |-> 0, pos |-> 0, ok |-> FALSE]
Plan(q, pos) == [q |-> q, pos |-> pos, ok |-> TRUE]

\* Values of `next` / next_link / next_page / saved plans on the wire.
\* kind: "none" (Python None), "plan" (an encoded saved plan),
\*       "id" (a plan id, str(uuid4())), "bad" (bytes that do not decode).
NoneTok == [kind |-> "none", q |-> 0, pos |-> 0, id |-> 0]
BadTok == [kind |-> "bad", q |-> 0, pos |-> 0, id |-> 0]
IdTok(i) == [kind |-> "id", q |-> 0, pos |-> 0, id |-> i]

\* encode_saved_plan: the saved plan as an opaque string.
encode_saved_plan(saved_plan) ==
    [kind |-> "plan", q |-> saved_plan.q, pos |-> saved_plan.pos, id |-> 0]

\* load(decode_saved_plan(s), dataset): the plan of a well-formed encoded plan;
\* anything else (None, a plan id, corrupted bytes) raises.
load(s) ==
    IF s.kind = "plan" /\ s.q \in Queries /\ s.pos \in 0..s.q
    THEN Plan(s.q, s.pos)
    ELSE NoPlan

\* statefull_manager.get_plan: the token saved under the id, None on a miss.
get_plan(st, tok) ==
    IF tok.kind = "id" /\ tok.id \in Ids THEN st[tok.id] ELSE NoneTok

\* statefull_manager.save_plan / delete_plan.
save_plan(st, tok, page) == [st EXCEPT ![tok.id] = page]
delete_plan(st, tok) == [st EXCEPT ![tok.id] = NoneTok]

\* parse_query / build_query_plan on a query text: a plan at its start.
parse_query(query) == Plan(query, 0)

\* build_query_plan(query, dataset, graph_name, next_link) of the old API:
\* resumes the plan of next_link when one is given, else plans the query.
build_query_plan(query, next_link) ==
    IF next_link.kind = "none" THEN parse_query(query) ELSE load(next_link)

Min(a, b) == IF a < b THEN a ELSE b

\* SageEngine.execute(plan, quota, max_results): what = "done" runs the plan
\* to its end; "suspended" stops after at most k further bindings with the
\* plan saved at that point; "abort" stops with an abort reason, the partial
\* bindings and no saved plan.
engine_execute(plan, what, k) ==
    LET remaining == plan.q - plan.pos
        n == IF what = "done" THEN remaining ELSE Min(k, remaining)
    IN  [bindings |-> SubSeq(Results(plan.q), plan.pos + 1, plan.pos + n),
         saved_plan |-> IF what = "suspended" THEN Plan(plan.q, plan.pos + n)
                        ELSE NoPlan,
         is_done |-> (what = "done"),
         abort_reason |-> IF what = "abort" THEN "reason" ELSE "None"]

\* ---------------------------------------------------------------- requests

\* What the environment decides for one request: whether the graph exists,
\* the form of the request (a JSON POST, a GET, or a body the schema
\* rejects), how the engine stops (with k the bindings it emits before a
\* suspension or an abort), and which call (if any) raises: the graph
\* lookup (format_graph_uri, has_graph, get_graph), load,
\* parse_query (UnsupportedSPARQL or another exception), engine.execute,
\* graph.commit, encode_saved_plan, save_plan, delete_plan, or the building
\* of the response.
Env(has_graph, form, what, k, fail) ==
    [has_graph |-> has_graph, form |-> form, what |-> what, k |-> k,
     fail |-> fail]
Envs ==
    {Env(FALSE, "post", "done", 0, "none")}
    \cup {Env(TRUE, f, "done", 0, "none") : f \in {"get", "invalid"}}
    \cup {Env(TRUE, "post", "done", 0, f) :
            f \in {"graph", "load", "parse", "unsupported", "engine"}}
    \cup {Env(TRUE, "post", "abort", k, "none") : k \in {MaxLen}}
    \cup {Env(TRUE, "post", "done", 0, f) :
            f \in {"none", "commit", "delete", "respond"}}
    \cup {Env(TRUE, "post", "suspended", k, "none") : k \in 0..MaxLen}
    \cup {Env(TRUE, "post", "suspended", 1, f) :
            f \in {"commit", "encode", "save", "respond"}}

\* The choices that can make a difference to a request with this `next`.
EnvsFor(next_link) ==
    {e \in Envs :
       /\ e.fail = "load" => next_link # NoneTok
       /\ e.fail \in {"parse", "unsupported"} => next_link = NoneTok
       /\ e.form = "get" => endpoint = "legacy"
       /\ e.fail = "save" => ~is_stateless
       /\ e.fail = "delete" => (~is_stateless /\ next_link # NoneTok)}

\* The mimetypes a handler offers to request.accept_mimetypes.best_match.
IndexOffers ==
    {"application/json", "application/xml",
     "application/sparql-results+json", "application/sparql-results+xml",
     "text/html"}
LegacyOffers == IndexOffers \ {"text/html"}

\* What a client may accept: one of the offered types, or another type.
Accepts == IndexOffers \cup {"text/plain"}

\* best_match: the offered type the client accepts, None without a match.
best_match(accept, offers) == IF accept \in offers THEN accept ELSE "None"

\* request.args.get(name): None for an absent argument, else its text,
\* which may be the empty string.
ArgTexts == {"absent", "", "text"}

\* request.args.get(name) or None: an absent or empty argument is None.
OrNone(arg) == IF arg = "absent" \/ arg = "" THEN "None" ELSE arg

\* The locals of a handler, the calls it made and its response.  A request
\* is a JSON POST accepting application/json unless said otherwise; the
\* arguments of a GET are q_arg (query), g_arg (default-graph-uri) and n_arg
\* (next), whose texts, when they have one, stand for query and next_link.
NewRq(ep, kind, query, next_link) ==
    [endpoint |-> ep, kind |-> kind,
     query |-> query, next_link |-> next_link,
     method |-> "POST", accept |-> "application/json", mimetype |-> "None",
     q_arg |-> "absent", g_arg |-> "absent", n_arg |-> "absent",
     executed |-> FALSE, resp_format |-> "none",
     pc |-> "run", graph |-> FALSE, plan |-> NoPlan, loaded |-> NoPlan,
     load_failed |-> FALSE, parsed |-> FALSE, plan_id |-> NoneTok,
     engine_ran |-> FALSE, is_done |-> FALSE, abort_reason |-> "None",
     bindings |-> <<>>, saved_plan |-> NoPlan, next_page |-> NoneTok,
     commits |-> 0, aborts |-> 0, gets |-> 0, saves |-> 0, deletes |-> 0,
     commits_at_write |-> 0,
     raised |-> "None",
     resp |-> "none", resp_bindings |-> <<>>, resp_next |-> NoneTok,
     resp_reason |-> "None"]

\* A handler in progress: its locals, the store and the id source.
Ctx(rq, st, nid) == [rq |-> rq, store |-> st, nextId |-> nid]

Raise(ctx, exc) == [ctx EXCEPT !.rq.pc = "raised", !.rq.raised = exc]

\* return sage_http_error(...): an error response without bindings.
ReturnError(ctx, reason) ==
    [ctx EXCEPT !.rq.pc = "returned", !.rq.resp = "error",
                !.rq.resp_reason = reason]

\* ------------------------------------------------- execute_query (/sparql)

\* ResolveGraph with the has_graph test lost: get_graph on any name.
ResolveGraph_NoCheck(ctx, env) ==
    IF ctx.rq.pc # "run" THEN ctx
    ELSE IF env.fail = "graph" THEN Raise(ctx, "Exception")
    ELSE [ctx EXCEPT !.rq.graph = TRUE]

\* format_graph_uri / dataset.has_graph / dataset.get_graph; graph is None
\* until get_graph has returned.
ResolveGraph(ctx, env) ==
    IF ctx.rq.pc # "run" THEN ctx
    ELSE IF env.fail = "graph" THEN Raise(ctx, "Exception")
    ELSE IF ~env.has_graph THEN ReturnError(ctx, "unknown_graph")
    ELSE [ctx EXCEPT !.rq.graph = TRUE]

\* LoadPlan with next_link never read: every request plans its query anew.
LoadPlan_IgnoringNext(ctx, env) ==
    IF ctx.rq.pc # "run" THEN ctx
    ELSE [ctx EXCEPT !.rq.plan = parse_query(ctx.rq.query)]

\* "decode next_link or build query execution plan".
LoadPlan(ctx, env) ==
    IF ctx.rq.pc # "run" THEN ctx
    ELSE IF ctx.rq.next_link # NoneTok
    THEN LET saved_plan == IF is_stateless THEN ctx.rq.next_link
                           ELSE get_plan(ctx.store, ctx.rq.next_link)
             plan == load(saved_plan)
             c1 == IF is_stateless THEN ctx
                   ELSE [ctx EXCEPT !.rq.gets = @ + 1]
         IN  IF env.fail = "load" \/ ~plan.ok
             THEN Raise([c1 EXCEPT !.rq.load_failed = TRUE], "Exception")
             ELSE [c1 EXCEPT !.rq.plan = plan, !.rq.loaded = plan]
    ELSE LET c1 == [ctx EXCEPT !.rq.parsed = TRUE]
         IN  IF env.fail = "unsupported" THEN Raise(c1, "UnsupportedSPARQL")
             ELSE IF env.fail = "parse" THEN Raise(c1, "Exception")
             ELSE [c1 EXCEPT !.rq.plan = parse_query(ctx.rq.query)]

\* bindings, saved_plan, is_done, abort_reason = engine.execute(...)
RunEngine(ctx, env) ==
    IF ctx.rq.pc # "run" THEN ctx
    ELSE IF env.fail = "engine"
    THEN Raise([ctx EXCEPT !.rq.engine_ran = TRUE], "Exception")
    ELSE LET r == engine_execute(ctx.rq.plan, env.what, env.k)
         IN  [ctx EXCEPT !.rq.engine_ran = TRUE,
                         !.rq.bindings = r.bindings,
                         !.rq.saved_plan = r.saved_plan,
                         !.rq.is_done = r.is_done,
                         !.rq.abort_reason = r.abort_reason]

\* CommitOrAbort with the test of abort_reason lost: always commits.
CommitOrAbort_AlwaysCommit(ctx, env) ==
    IF ctx.rq.pc # "run" THEN ctx
    ELSE IF ctx.rq.abort_reason # "None"
    THEN ReturnError([ctx EXCEPT !.rq.commits = @ + 1], ctx.rq.abort_reason)
    ELSE [ctx EXCEPT !.rq.commits = @ + 1]

\* "commit or abort (if necessary)".
CommitOrAbort(ctx, env) ==
    IF ctx.rq.pc # "run" THEN ctx
    ELSE IF ctx.rq.abort_reason # "None"
    THEN ReturnError([ctx EXCEPT !.rq.aborts = @ + 1], ctx.rq.abort_reason)
    ELSE LET c1 == [ctx EXCEPT !.rq.commits = @ + 1]
         IN  IF env.fail = "commit" THEN Raise(c1, "Exception") ELSE c1

\* PlanId with a new id generated at every suspension.
PlanId_AlwaysFresh(next_link, fresh) == IdTok(fresh)

\* plan_id = next_link if next_link is not None else str(uuid4())
PlanId(next_link, fresh) ==
    IF next_link # NoneTok THEN next_link ELSE IdTok(fresh)

\* ShouldSave with the test of is_done lost.
ShouldSave_EvenWhenDone(is_done, abort_reason) == abort_reason = "None"

\* ShouldDelete with the deletion branch never taken.
ShouldDelete_Never(is_done, next_link) == FALSE

\* if (not is_done) and abort_reason is None
ShouldSave(is_done, abort_reason) ==
    (~is_done) /\ abort_reason = "None"

\* elif is_done and (not dataset.is_stateless) and next_link is not None
ShouldDelete(is_done, next_link) ==
    is_done /\ (~is_stateless) /\ next_link # NoneTok

\* "encode saved plan if query execution is not done yet and there was no
\* abort", else "delete the saved plan, as it will not be reloaded anymore".
\* next_link is the handler's local of that name.
SaveOrDelete(ctx, env, next_link) ==
    IF ctx.rq.pc # "run" THEN ctx
    ELSE IF ShouldSave(ctx.rq.is_done, ctx.rq.abort_reason)
    THEN IF env.fail = "encode" THEN Raise(ctx, "Exception")
         ELSE LET next_page == encode_saved_plan(ctx.rq.saved_plan)
              IN  IF is_stateless
                  THEN [ctx EXCEPT !.rq.next_page = next_page]
                  ELSE LET plan_id == PlanId(next_link, ctx.nextId)
                           c1 == IF next_link # NoneTok THEN ctx
                                 ELSE [ctx EXCEPT !.nextId = @ + 1]
                       IN  IF env.fail = "save" \/ plan_id.kind # "id"
                           THEN Raise(c1, "Exception")
                           ELSE [c1 EXCEPT
                                   !.store = save_plan(@, plan_id, next_page),
                                   !.rq.saves = @ + 1,
                                   !.rq.commits_at_write = ctx.rq.commits,
                                   !.rq.plan_id = plan_id,
                                   !.rq.next_page = plan_id]
    ELSE IF ShouldDelete(ctx.rq.is_done, next_link)
    THEN IF env.fail = "delete" \/ next_link.kind # "id"
         THEN Raise(ctx, "Exception")
         ELSE [ctx EXCEPT !.store = delete_plan(@, next_link),
                          !.rq.deletes = @ + 1,
                          !.rq.commits_at_write = ctx.rq.commits]
    ELSE ctx

\* The encoding of the response of execute_query: three tests of mimetype,
\* each returning, "otherwise, return the HTML version".
ResponseFormat(mimetype) ==
    IF mimetype = "application/sparql-results+json" THEN "w3c_json"
    ELSE IF mimetype = "application/xml"
            \/ mimetype = "application/sparql-results+xml" THEN "w3c_xml"
    ELSE IF mimetype = "application/json" THEN "raw_json"
    ELSE "html"

\* "send response": the bindings and next_page in the negotiated format.
SendResponse(ctx, env) ==
    IF ctx.rq.pc # "run" THEN ctx
    ELSE IF env.fail = "respond" THEN Raise(ctx, "Exception")
    ELSE [ctx EXCEPT !.rq.pc = "returned", !.rq.resp = "ok",
                     !.rq.resp_format = ResponseFormat(ctx.rq.mimetype),
                     !.rq.resp_bindings = ctx.rq.bindings,
                     !.rq.resp_next = ctx.rq.next_page]

\* OnException that forwards the exception without graph.abort().
OnException_NoAbort(ctx) == ctx

\* OnException without the test "graph is not None".
OnException_AbortUnbound(ctx) ==
    IF ctx.rq.pc # "raised" THEN ctx
    ELSE [ctx EXCEPT !.rq.aborts = @ + 1]

\* except Exception: "abort all ongoing transactions, then forward the
\* exception to the main loop".
OnException(ctx) ==
    IF ctx.rq.pc # "raised" THEN ctx
    ELSE IF ctx.rq.graph THEN [ctx EXCEPT !.rq.aborts = @ + 1]
    ELSE ctx

\* execute_query with the plan saved or deleted before the commit.
execute_query_SaveBeforeCommit(ctx, env) ==
    LET c1 == ResolveGraph([ctx EXCEPT !.rq.executed = TRUE], env)
        c2 == LoadPlan(c1, env)
        c3 == RunEngine(c2, env)
        c4 == SaveOrDelete(c3, env, c3.rq.next_link)
        c5 == CommitOrAbort(c4, env)
        c6 == SendResponse(c5, env)
    IN  OnException(c6)

execute_query(ctx, env) ==
    LET c0 == [ctx EXCEPT !.rq.executed = TRUE]
        c1 == ResolveGraph(c0, env)
        c2 == LoadPlan(c1, env)
        c3 == RunEngine(c2, env)
        c4 == CommitOrAbort(c3, env)
        c5 == SaveOrDelete(c4, env, c4.rq.next_link)
        c6 == SendResponse(c5, env)
    IN  OnException(c6)

\* except UnsupportedSPARQL: sage_http_error(str(err));
\* except Exception: abort(500).
HttpErrors(c1) ==
    IF c1.rq.pc # "raised" THEN c1
    ELSE IF c1.rq.raised = "UnsupportedSPARQL"
    THEN [c1 EXCEPT !.rq.resp = "error", !.rq.resp_reason = "unsupported"]
    ELSE [c1 EXCEPT !.rq.resp = "500"]

\* sparql_index without its clause for UnsupportedSPARQL.
sparql_index_No400(ctx, env) ==
    IF env.form = "invalid" THEN ReturnError(ctx, "invalid_request")
    ELSE LET c1 == execute_query(
                     [ctx EXCEPT !.rq.mimetype =
                                   best_match(ctx.rq.accept, IndexOffers)],
                     env)
         IN  IF c1.rq.pc # "raised" THEN c1
             ELSE [c1 EXCEPT !.rq.resp = "500"]

\* GetRejected with the test its error message describes: "a GET request
\* must contains both parameters 'query' and 'default-graph-uri'".
GetRejected_NeedsQuery(query, default_graph_uri, next_link) ==
    query = "None" \/ default_graph_uri = "None"

\* "ensure that both the query and default-graph-uri params are set".
GetRejected(query, default_graph_uri, next_link) ==
    /\ (query = "None" \/ default_graph_uri = "None")
    /\ (next_link = "None" \/ default_graph_uri = "None")

\* The /sparql route: content negotiation, argument parsing (of a GET, of
\* a JSON POST, anything else being an error), execute_query, and the
\* mapping of what it raises onto HTTP errors.
sparql_index(ctx, env) ==
    LET c0 == [ctx EXCEPT
                 !.rq.mimetype = best_match(ctx.rq.accept, IndexOffers)]
    IN  IF c0.rq.method = "GET"
        THEN LET query == OrNone(c0.rq.q_arg)
                 default_graph_uri == OrNone(c0.rq.g_arg)
                 next_link == OrNone(c0.rq.n_arg)
             IN  IF GetRejected(query, default_graph_uri, next_link)
                 THEN ReturnError(c0, "invalid_request")
                 ELSE HttpErrors(execute_query(
                        [c0 EXCEPT !.rq.next_link =
                           IF next_link = "None" THEN NoneTok ELSE @],
                        env))
        ELSE IF env.form \in {"invalid", "get"}
        THEN ReturnError(c0, "invalid_request")
        ELSE HttpErrors(execute_query(c0, env))

\* ------------------------------ sparql_query (/sparql/<graph_name>, old API)

\* "Load next link": the handler's local next_link is set to None and is
\* not assigned again, whatever the request's `next` is.
LegacyNextLink(post_next) == NoneTok

\* The saved plan of the request's `next` is fetched, decoded and loaded.
LegacyLoad(ctx, env) ==
    IF ctx.rq.pc # "run" THEN ctx
    ELSE IF ctx.rq.next_link # NoneTok
    THEN LET saved_plan == IF is_stateless THEN ctx.rq.next_link
                           ELSE get_plan(ctx.store, ctx.rq.next_link)
             plan == load(saved_plan)
             c1 == IF is_stateless THEN ctx
                   ELSE [ctx EXCEPT !.rq.gets = @ + 1]
         IN  IF env.fail = "load" \/ ~plan.ok
             THEN Raise([c1 EXCEPT !.rq.load_failed = TRUE], "Exception")
             ELSE [c1 EXCEPT !.rq.plan = plan, !.rq.loaded = plan]
    ELSE ctx

\* "build physical query plan, then execute it with the given quota".
LegacyBuild(ctx, env) ==
    IF ctx.rq.pc # "run" THEN ctx
    ELSE IF env.fail \in {"parse", "unsupported"}
    THEN Raise(ctx, IF env.fail = "parse" THEN "Exception"
                    ELSE "UnsupportedSPARQL")
    ELSE LET plan == build_query_plan(ctx.rq.query,
                                      LegacyNextLink(ctx.rq.next_link))
             c1 == [ctx EXCEPT !.rq.parsed = TRUE]
         IN  IF ~plan.ok THEN Raise(c1, "Exception")
             ELSE [c1 EXCEPT !.rq.plan = plan]

\* The encoding of the response of sparql_query: an `if` that binds res,
\* followed by an `if ... else` that binds res again on either branch.
LegacyResponseFormat(mimetype) ==
    LET res1 == IF mimetype = "application/sparql-results+json"
                THEN "w3c_json" ELSE "unbound"
        res2 == IF mimetype = "application/xml"
                   \/ mimetype = "application/sparql-results+xml"
                THEN "w3c_xml" ELSE "raw_json"
    IN  res2

\* The response of sparql_query, with its deprecation warning.
LegacySendResponse(ctx, env) ==
    IF ctx.rq.pc # "run" THEN ctx
    ELSE IF env.fail = "respond" THEN Raise(ctx, "Exception")
    ELSE [ctx EXCEPT !.rq.pc = "returned", !.rq.resp = "ok",
                     !.rq.resp_format = LegacyResponseFormat(ctx.rq.mimetype),
                     !.rq.resp_bindings = ctx.rq.bindings,
                     !.rq.resp_next = ctx.rq.next_page]

\* except Exception: graph.abort(), then abort(500).
LegacyOnException(ctx) ==
    IF ctx.rq.pc # "raised" THEN ctx
    ELSE [ctx EXCEPT !.rq.aborts = @ + 1, !.rq.resp = "500"]

\* get_graph is called outside the try block: what it raises goes to Flask.
\* A GET, or a request that is not JSON, gets the homepage of the dataset.
sparql_query(ctx, env) ==
    IF env.fail = "graph"
    THEN [Raise(ctx, "Exception") EXCEPT !.rq.resp = "500"]
    ELSE IF ~env.has_graph
    THEN [ctx EXCEPT !.rq.pc = "returned", !.rq.resp = "404"]
    ELSE LET c0 == [ctx EXCEPT
                      !.rq.graph = TRUE,
                      !.rq.mimetype = best_match(ctx.rq.accept, LegacyOffers)]
         IN  IF c0.rq.method = "GET" \/ env.form = "get"
             THEN [c0 EXCEPT !.rq.pc = "returned", !.rq.resp = "homepage"]
             ELSE IF env.form = "invalid"
             THEN ReturnError(c0, "invalid_request")
             ELSE LET c1 == LegacyLoad(c0, env)
                      c2 == LegacyBuild(c1, env)
                      c3 == RunEngine(c2, env)
                      c4 == CommitOrAbort(c3, env)
                      c5 == SaveOrDelete(c4, env,
                                         LegacyNextLink(c4.rq.next_link))
                      c6 == LegacySendResponse(c5, env)
                  IN  LegacyOnException(c6)

\* ------------------------------------------------------------------ clients

Endpoints == {"sparql", "legacy"}

\* A client: the endpoint and query of its lineage, the continuation it
\* holds, and the bindings and pages it has received.
IdleClient ==
    [endpoint |-> "none", q |-> 0, status |-> "idle", next |-> NoneTok,
     first_next |-> NoneTok, received |-> <<>>, pages |-> 0]

\* The client after the response to a request of its lineage: a page is
\* appended; the lineage goes on with the returned `next`, ends with the
\* last page, or fails on an error response.
AfterResponse(cl, rq) ==
    IF rq.resp = "ok"
    THEN [cl EXCEPT !.received = @ \o rq.resp_bindings,
                    !.pages = @ + 1,
                    !.next = rq.resp_next,
                    !.first_next = IF @ = NoneTok THEN rq.resp_next ELSE @,
                    !.status = IF rq.resp_next = NoneTok THEN "done"
                               ELSE "active"]
    ELSE [IdleClient EXCEPT !.status = "failed", !.endpoint = cl.endpoint]

Handle(ep, ctx, env) ==
    IF ep = "sparql" THEN sparql_index(ctx, env)
    ELSE sparql_query(ctx, env)

\* No request is being served and no response is on its way.
NoLast ==
    [rq |-> NewRq("none", "none", 0, NoneTok), client |-> 0,
     has_graph |-> TRUE, stale |-> FALSE, store_same |-> TRUE, id_was_used |-> FALSE]

\* One request served from start to end: the handler runs on the store and
\* leaves its response for the client.
ServeRq(c, rq0, env) ==
    LET ctx == Handle(endpoint, Ctx(rq0, store, nextId), env)
        rq == ctx.rq
        next_link == rq.next_link
    IN  /\ nreq < MaxReqs
        /\ last = NoLast
        /\ nreq' = nreq + 1
        /\ store' = ctx.store
        /\ nextId' = ctx.nextId
        /\ last' = [rq |-> rq, client |-> c, has_graph |-> env.has_graph,
                    stale |-> (next_link.kind = "id"
                               /\ next_link.id \in completed),
                    store_same |-> (ctx.store = store),
                    id_was_used |-> (rq.saves = 1
                                     /\ rq.plan_id.id \in 1..(nextId - 1))]
        /\ completed' =
             IF endpoint = "sparql" /\ rq.resp = "ok" /\ rq.is_done
                /\ ~is_stateless /\ next_link.kind = "id"
             THEN completed \cup {next_link.id} ELSE completed
        /\ owner' = IF rq.saves = 1
                    THEN [owner EXCEPT ![rq.plan_id.id] = c] ELSE owner
        /\ UNCHANGED <<is_stateless, endpoint, clients, inflight>>

\* A JSON POST accepting application/json.
Serve(c, kind, query, next_link, env) ==
    ServeRq(c, NewRq(endpoint, kind, query, next_link), env)

\* The client receives the response to its request.
Deliver ==
    /\ last # NoLast
    /\ clients' = [clients EXCEPT ![last.client] =
                     IF last.rq.kind = "invalid"
                     THEN IF @.status = "active"
                          THEN [IdleClient EXCEPT
                                  !.status = "failed",
                                  !.endpoint = last.rq.endpoint]
                          ELSE @
                     ELSE AfterResponse(
                            [@ EXCEPT !.endpoint = last.rq.endpoint,
                                      !.q = last.rq.query], last.rq)]
    /\ last' = NoLast
    /\ UNCHANGED <<is_stateless, store, nextId, nreq, endpoint, completed,
                   owner, inflight>>

\* A client starts a query: a request without `next`.
Start(c) ==
    /\ clients[c].status = "idle"
    /\ \A d \in 1..(c - 1) : clients[d].status # "idle"
    /\ \E q \in Queries, env \in EnvsFor(NoneTok) :
         Serve(c, "start", q, NoneTok, env)

\* A client resubmits the `next` of the previous response.
Resume(c) ==
    /\ clients[c].status = "active"
    /\ \E env \in EnvsFor(clients[c].next) :
         Serve(c, "resume", clients[c].q,
               clients[c].next, env)

\* Continuations that name no plan: corrupted bytes, and in stateful mode
\* an id under which no plan is saved (deleted since, or never generated).
InvalidToks ==
    {BadTok} \cup
    (IF is_stateless THEN {}
     ELSE {IdTok(i) : i \in {j \in 1..Min(nextId, MaxReqs) :
                               store[j] = NoneTok}})

\* A client that has a lineage submits an invalid continuation.
Invalid(c) ==
    /\ clients[c].status \in {"active", "done"}
    /\ \E tok \in InvalidToks :
         \E env \in {Env(TRUE, "post", "done", 0, "none"),
                     Env(TRUE, "post", "suspended", 1, "none")} :
           Serve(c, "invalid", clients[c].q, tok, env)

\* The slots of the requests served concurrently, one request each.
Slots == 1..MaxReqs
IdleSlot == [rq |-> NewRq("none", "none", 0, NoneTok), step |-> "idle"]

Init ==
    /\ is_stateless \in BOOLEAN
    /\ endpoint \in Endpoints
    /\ nreq = 0
    /\ store = [i \in Ids |-> NoneTok]
    /\ nextId = 1
    /\ clients = [c \in Clients |-> IdleClient]
    /\ last = NoLast
    /\ completed = {}
    /\ owner = [i \in Ids |-> 0]
    /\ inflight = [r \in Slots |-> IdleSlot]

Next ==
    \/ \E c \in Clients : Start(c)
    \/ \E c \in Clients : Resume(c)
    \/ \E c \in Clients : Invalid(c)
    \/ Deliver

Spec == Init /\ [][Next]_vars


\* --------------------------------------------- requests as HTTP sends them

\* Outcomes for a request whose method, arguments and Accept header vary:
\* the graph exists or not, the engine completes or suspends.
HttpEnvs ==
    {Env(TRUE, "post", "done", 0, "none"),
     Env(TRUE, "post", "suspended", 1, "none"),
     Env(FALSE, "post", "done", 0, "none")}

\* A GET with any combination of absent, empty and given arguments.  A
\* given `next` is the continuation the client holds, or bytes that are
\* none when it holds none.
HttpGet(c) ==
    /\ clients[c].status \in {"idle", "active"}
    /\ \A d \in 1..(c - 1) : clients[d].status # "idle"
    /\ \E q_arg \in ArgTexts, g_arg \in ArgTexts, n_arg \in ArgTexts :
         \E accept \in {"text/html", "application/json"}, env \in HttpEnvs :
           LET active == clients[c].status = "active"
               tok == IF n_arg # "text" THEN NoneTok
                      ELSE IF active THEN clients[c].next ELSE BadTok
               kind == IF n_arg # "text" THEN "start"
                       ELSE IF active THEN "resume" ELSE "invalid"
               query == IF active THEN clients[c].q ELSE MaxLen
           IN  /\ active => n_arg = "text"
               /\ ServeRq(c, [NewRq(endpoint, kind, query, tok) EXCEPT
                                !.method = "GET", !.accept = accept,
                                !.q_arg = q_arg, !.g_arg = g_arg,
                                !.n_arg = n_arg],
                          env)

\* A POST, JSON or not, with any Accept header.
HttpPost(c) ==
    /\ clients[c].status \in {"idle", "active"}
    /\ \A d \in 1..(c - 1) : clients[d].status # "idle"
    /\ \E accept \in Accepts :
         \E env \in HttpEnvs \cup {Env(TRUE, "get", "done", 0, "none")} :
           LET active == clients[c].status = "active"
               kind == IF active THEN "resume" ELSE "start"
               query == IF active THEN clients[c].q ELSE MaxLen
           IN  ServeRq(c, [NewRq(endpoint, kind, query, clients[c].next)
                             EXCEPT !.accept = accept],
                       env)

NextHttp ==
    \/ \E c \in Clients : HttpGet(c)
    \/ \E c \in Clients : HttpPost(c)
    \/ Deliver

SpecHttp == Init /\ [][NextHttp]_vars

\* ------------------------------------------- concurrent requests on /sparql

\* Requests are served in parallel, one per request: the steps of
\* execute_query of different requests interleave between its accesses to
\* the saved-plan store.  No call raises here.
ConcEnvs ==
    {Env(TRUE, "post", "done", 0, "none"),
     Env(TRUE, "post", "abort", 1, "none")}
    \cup {Env(TRUE, "post", "suspended", k, "none") : k \in 0..1}
ConcEnv == Env(TRUE, "post", "done", 0, "none")

InFlight(r) == inflight[r].step \notin {"idle", "end"}

ConcCtx(r) == Ctx(inflight[r].rq, store, nextId)

\* The ids a client may present: those a response has returned as `next`.
KnownIds ==
    {i \in Ids : \E r \in Slots : /\ inflight[r].step = "end"
                                  /\ inflight[r].rq.resp_next = IdTok(i)}

\* A request arrives; the graph is resolved and the plan loaded or parsed.
ConcArrive(r) ==
    /\ inflight[r].step = "idle"
    /\ \A d \in 1..(r - 1) : inflight[d].step # "idle"
    /\ \E next_link \in {NoneTok} \cup {IdTok(i) : i \in KnownIds} :
         LET kind == IF next_link = NoneTok THEN "start" ELSE "resume"
             rq0 == NewRq("sparql", kind, MaxLen, next_link)
             c0 == Ctx([rq0 EXCEPT
                          !.mimetype = best_match(rq0.accept, IndexOffers),
                          !.executed = TRUE],
                       store, nextId)
             c2 == LoadPlan(ResolveGraph(c0, ConcEnv), ConcEnv)
         IN  inflight' = [inflight EXCEPT
                            ![r] = [rq |-> c2.rq, step |-> "execute"]]
    /\ UNCHANGED <<is_stateless, store, nextId, clients, last, nreq,
                   endpoint, completed, owner>>

\* The engine runs the plan, then the transaction is committed or aborted.
ConcExecute(r) ==
    /\ inflight[r].step = "execute"
    /\ \E env \in ConcEnvs :
         LET c4 == CommitOrAbort(RunEngine(ConcCtx(r), env), env)
         IN  inflight' = [inflight EXCEPT
                            ![r] = [rq |-> c4.rq, step |-> "export"]]
    /\ UNCHANGED <<is_stateless, store, nextId, clients, last, nreq,
                   endpoint, completed, owner>>

\* The saved plan is encoded and saved, or the completed plan deleted.
ConcExport(r) ==
    /\ inflight[r].step = "export"
    /\ LET c5 == SaveOrDelete(ConcCtx(r), ConcEnv, inflight[r].rq.next_link)
       IN  /\ inflight' = [inflight EXCEPT
                             ![r] = [rq |-> c5.rq, step |-> "respond"]]
           /\ store' = c5.store
           /\ nextId' = c5.nextId
    /\ UNCHANGED <<is_stateless, clients, last, nreq, endpoint, completed,
                   owner>>

\* The response is sent, or the exception handled and turned into an error.
ConcRespond(r) ==
    /\ inflight[r].step = "respond"
    /\ LET c6 == HttpErrors(OnException(SendResponse(ConcCtx(r), ConcEnv)))
       IN  /\ inflight' = [inflight EXCEPT
                             ![r] = [rq |-> c6.rq, step |-> "end"]]
           /\ completed' =
                IF c6.rq.resp = "ok" /\ c6.rq.is_done /\ c6.rq.deletes = 1
                THEN completed \cup {c6.rq.next_link.id} ELSE completed
    /\ UNCHANGED <<is_stateless, store, nextId, clients, last, nreq,
                   endpoint, owner>>

InitConc == Init /\ ~is_stateless /\ endpoint = "sparql"

NextConc ==
    \/ \E r \in Slots : ConcArrive(r)
    \/ \E r \in Slots : ConcExecute(r)
    \/ \E r \in Slots : ConcExport(r)
    \/ \E r \in Slots : ConcRespond(r)

SpecConc == InitConc /\ [][NextConc]_vars

\* ------------------------------------------------------------------- claims

\* The store entries saved by requests of client c.
EntriesOf(c) == {i \in Ids : store[i] # NoneTok /\ owner[i] = c}

IsPrefix(s, t) == Len(s) <= Len(t) /\ s = SubSeq(t, 1, Len(s))

\* C1: every request that reaches engine.execute calls exactly one of
\* graph.commit() and graph.abort(), whatever the engine returns and whether
\* the steps after it succeed or raise.
C1_TransactionPairing ==
    last.rq.engine_ran => last.rq.commits + last.rq.aborts = 1

\* C2: on /sparql, the pages a client has received by resubmitting `next`
\* are at every moment the first bindings of the uninterrupted execution, in
\* order, and once a page comes without continuation they are all of them.
C2_PreemptionSoundness ==
    endpoint = "sparql" =>
      \A c \in Clients :
        /\ IsPrefix(clients[c].received, Results(clients[c].q))
        /\ clients[c].status = "done" =>
             clients[c].received = Results(clients[c].q)

C2_Witness ==
    /\ endpoint = "sparql"
    /\ ~is_stateless
    /\ \E c \in Clients :
         /\ clients[c].status = "done"
         /\ clients[c].pages >= 2
         /\ Len(clients[c].received) = MaxLen

\* C3: on the deprecated route, a request with a non-null `next` hands the
\* engine the plan reconstituted from that continuation, so the pages of a
\* finished lineage are exactly the bindings of the uninterrupted execution.
C3_LegacyResumesContinuation ==
    endpoint = "legacy" =>
      /\ (last.rq.engine_ran /\ last.rq.next_link # NoneTok)
           => last.rq.plan = last.rq.loaded
      /\ \A c \in Clients :
           clients[c].status = "done" =>
             clients[c].received = Results(clients[c].q)

\* C4: a response of execute_query carries a continuation if and only if
\* the engine stopped with is_done = false and without abort reason.
C4_NextIffSuspended ==
    (last.rq.endpoint = "sparql" /\ last.rq.pc = "returned") =>
      (last.rq.resp_next # NoneTok
         <=> (last.rq.engine_ran /\ ~last.rq.is_done
              /\ last.rq.abort_reason = "None"))

C4_Witness ==
    /\ last.rq.endpoint = "sparql"
    /\ last.rq.pc = "returned"
    /\ last.rq.resp_next # NoneTok

\* C5: in stateful mode on /sparql, a first suspension saves under an id
\* never used before, a later suspension saves under the id it was resumed
\* with, the store holds at most one entry per lineage, and the id a client
\* is given does not change within its lineage.
C5_IdReuse ==
    (endpoint = "sparql" /\ ~is_stateless) =>
      /\ (last.rq.saves = 1 /\ last.rq.next_link = NoneTok)
           => (~last.id_was_used /\ last.rq.plan_id.kind = "id")
      /\ (last.rq.saves = 1 /\ last.rq.next_link # NoneTok)
           => last.rq.plan_id = last.rq.next_link
      /\ \A c \in Clients : Cardinality(EntriesOf(c)) <= 1
      /\ \A c \in Clients :
           clients[c].status = "active" =>
             /\ clients[c].next = clients[c].first_next
             /\ (last.client = c /\ last.rq.resp = "ok"
                 /\ last.rq.resp_next # NoneTok)
                  => last.rq.resp_next = clients[c].first_next

C5_Witness ==
    /\ endpoint = "sparql"
    /\ ~is_stateless
    /\ last.rq.kind = "resume"
    /\ last.rq.saves = 1
    /\ last.rq.resp = "ok"
    /\ \E c \in Clients : c # last.client /\ EntriesOf(c) # {}

\* C6: in stateful mode on /sparql, once a resumption with id X returned
\* is_done = true, no plan is stored under X, and a later resumption with X
\* fails without running the engine and without bindings.
C6_IdempotentCompletion ==
    (endpoint = "sparql" /\ ~is_stateless) =>
      /\ \A x \in completed : store[x] = NoneTok
      /\ last.stale =>
           /\ last.rq.raised = "Exception"
           /\ last.rq.resp = "500"
           /\ ~last.rq.engine_ran
           /\ last.rq.resp_bindings = <<>>

C6_Witness ==
    /\ endpoint = "sparql"
    /\ ~is_stateless
    /\ last.stale
    /\ last.rq.gets = 1

\* C7: in stateful mode on the deprecated route, the store holds at most one
\* entry per lineage still suspended and none for a lineage that completed.
C7_LegacyStoreLifecycle ==
    (endpoint = "legacy" /\ ~is_stateless) =>
      \A c \in Clients :
        /\ Cardinality(EntriesOf(c)) <= 1
        /\ clients[c].status = "done" => EntriesOf(c) = {}

\* C8 as stated: a request with an invalid continuation fails with neither
\* graph.commit() nor graph.abort() called and the store unchanged.
C8_InvalidNoTransactionCall ==
    last.rq.load_failed =>
      /\ last.rq.resp # "ok"
      /\ last.rq.commits = 0
      /\ last.rq.aborts = 0
      /\ last.store_same

\* C8 amended: a request with an invalid continuation fails before the
\* engine runs, graph.commit() is not called, the store is unchanged, and
\* graph.abort() is called once by the handler's exception clause.
C8_InvalidAbortsOnce ==
    last.rq.load_failed =>
      /\ last.rq.resp = "500"
      /\ ~last.rq.engine_ran
      /\ last.rq.commits = 0
      /\ last.rq.aborts = 1
      /\ last.rq.saves = 0 /\ last.rq.deletes = 0
      /\ last.store_same

C8_Witness ==
    /\ last.rq.kind = "invalid"
    /\ last.rq.load_failed
    /\ last.rq.endpoint = "sparql"
    /\ last.rq.next_link.kind = "id"
    /\ \E i \in Ids : store[i] # NoneTok

\* C9 as stated: UnsupportedSPARQL on /sparql is answered with a client
\* error and neither graph.commit() nor graph.abort() is called.
C9_UnsupportedNoTransactionCall ==
    (last.rq.endpoint = "sparql" /\ last.rq.raised = "UnsupportedSPARQL") =>
      /\ last.rq.resp = "error"
      /\ last.rq.resp_reason = "unsupported"
      /\ last.rq.commits = 0
      /\ last.rq.aborts = 0

\* C9 amended: UnsupportedSPARQL on /sparql is answered with a client error
\* carrying the message, graph.commit() is not called, and graph.abort() is
\* called once by execute_query's exception clause.
C9_UnsupportedAbortsOnce ==
    (last.rq.endpoint = "sparql" /\ last.rq.raised = "UnsupportedSPARQL") =>
      /\ last.rq.resp = "error"
      /\ last.rq.resp_reason = "unsupported"
      /\ ~last.rq.engine_ran
      /\ last.rq.commits = 0
      /\ last.rq.aborts = 1

C9_Witness ==
    /\ last.rq.endpoint = "sparql"
    /\ last.rq.raised = "UnsupportedSPARQL"

\* C10: when engine.execute returns an abort reason, the handler calls
\* graph.abort(), does not call graph.commit(), and answers with an error
\* that carries the reason and no bindings.
C10_AbortPairing ==
    (last.rq.engine_ran /\ last.rq.abort_reason # "None") =>
      /\ last.rq.aborts = 1
      /\ last.rq.commits = 0
      /\ last.rq.resp = "error"
      /\ last.rq.resp_reason = last.rq.abort_reason
      /\ last.rq.resp_bindings = <<>>
      /\ last.rq.resp_next = NoneTok

C10_Witness ==
    /\ last.rq.engine_ran
    /\ last.rq.abort_reason # "None"
    /\ last.rq.bindings # <<>>
    /\ last.rq.kind = "resume"

\* C11: in stateful mode, of two requests that resume the same
\* continuation id concurrently, at most one loads the saved plan and runs
\* the engine on it.
C11_AtMostOneInFlight ==
    \A r1 \in Slots, r2 \in Slots :
      (/\ r1 # r2
       /\ InFlight(r1) /\ InFlight(r2)
       /\ inflight[r1].rq.next_link.kind = "id"
       /\ inflight[r1].rq.next_link = inflight[r2].rq.next_link)
      => ~(/\ inflight[r1].rq.loaded.ok /\ inflight[r1].rq.engine_ran
           /\ inflight[r2].rq.loaded.ok /\ inflight[r2].rq.engine_ran)

\* C12: in stateful mode the `next` a response returns is an id under which
\* the store holds, when the response is produced, exactly the encoded
\* saved plan of this execution (in stateless mode `next` is that encoded
\* plan itself).
C12_TokenStoreConsistency ==
    \A r \in Slots :
      LET rq == inflight[r].rq
      IN  (/\ inflight[r].step = "respond"
           /\ rq.pc = "run"
           /\ rq.next_page # NoneTok)
          => IF is_stateless
             THEN rq.next_page = encode_saved_plan(rq.saved_plan)
             ELSE /\ rq.next_page.kind = "id"
                  /\ get_plan(store, rq.next_page)
                       = encode_saved_plan(rq.saved_plan)

\* C17: once a request resuming an id has returned is_done = true and
\* deleted the saved plan, the store never again holds an entry for that id.
C17_NoResurrection ==
    \A i \in completed : store[i] = NoneTok

\* C13: when the default graph URI names no graph of the dataset,
\* execute_query returns a client error without running the parser, the
\* loader or the engine, without commit() or abort(), and without reading
\* or writing the saved-plan store.
C13_UnknownGraphNoEffect ==
    (/\ last # NoLast
     /\ last.rq.endpoint = "sparql"
     /\ ~last.has_graph
     /\ last.rq.resp_reason # "invalid_request"
     /\ last.rq.raised = "None")
    => /\ last.rq.resp = "error"
       /\ last.rq.resp_reason = "unknown_graph"
       /\ ~last.rq.parsed
       /\ ~last.rq.loaded.ok /\ ~last.rq.load_failed
       /\ ~last.rq.engine_ran
       /\ last.rq.commits = 0 /\ last.rq.aborts = 0
       /\ last.rq.gets = 0 /\ last.rq.saves = 0 /\ last.rq.deletes = 0
       /\ last.store_same

\* A stateful resume whose graph is unknown: a plan is saved under its id.
C13_Witness ==
    /\ last # NoLast
    /\ last.rq.endpoint = "sparql"
    /\ ~last.has_graph
    /\ last.rq.resp = "error"
    /\ ~is_stateless
    /\ last.rq.next_link.kind = "id"
    /\ store[last.rq.next_link.id] # NoneTok

\* C15: an exception raised by a step of execute_query after the graph
\* handle was obtained is propagated after exactly one call of
\* graph.abort() by the exception clause (on top of the handler's own
\* commit, if it got that far); one raised before the handle was obtained
\* is propagated without any abort.
C15_AbortOnFailure ==
    (/\ last # NoLast
     /\ last.rq.endpoint = "sparql"
     /\ last.rq.pc = "raised")
    => /\ last.rq.resp \in {"500", "error"}
       /\ last.rq.aborts = IF last.rq.graph THEN 1 ELSE 0

C15_Witness ==
    /\ last # NoLast
    /\ last.rq.endpoint = "sparql"
    /\ last.rq.pc = "raised"
    /\ last.rq.graph
    /\ last.rq.engine_ran
    /\ last.rq.commits = 1
    /\ last.rq.aborts = 1

\* C18: within one execute_query request save_plan or delete_plan is called
\* only after graph.commit() of that request; a request whose engine run
\* ends with an abort reason, or that fails before the commit, leaves the
\* store as it was, the plan saved under its continuation id included.
C18_WriteAfterCommit ==
    (last # NoLast /\ last.rq.endpoint = "sparql")
    => /\ (last.rq.saves + last.rq.deletes > 0)
            => (last.rq.commits = 1 /\ last.rq.commits_at_write = 1)
       /\ (last.rq.abort_reason # "None" \/ last.rq.commits = 0)
            => /\ last.store_same
               /\ last.rq.saves = 0 /\ last.rq.deletes = 0
               /\ (last.rq.loaded.ok /\ ~is_stateless)
                    => load(get_plan(store, last.rq.next_link))
                         = last.rq.loaded

\* A stateful resume that the engine aborts: its plan is still saved.
C18_Witness ==
    /\ last # NoLast
    /\ last.rq.endpoint = "sparql"
    /\ ~is_stateless
    /\ last.rq.kind = "resume"
    /\ last.rq.abort_reason # "None"
    /\ last.rq.aborts = 1
    /\ store[last.rq.next_link.id] # NoneTok

C16_FormatSelection ==
    (last # NoLast /\ last.rq.resp = "ok")
    => /\ last.rq.mimetype = "application/sparql-results+json"
            => last.rq.resp_format = "w3c_json"
       /\ last.rq.mimetype \in {"application/xml",
                               "application/sparql-results+xml"}
            => last.rq.resp_format = "w3c_xml"
       /\ last.rq.mimetype = "application/json"
            => last.rq.resp_format = "raw_json"

====
